---- MODULE Spec2Model ----
(***************************************************************************)
(* Limit order book of aartoni/orderbook: Order, PriceLevel, BookSide and  *)
(* OrderBook (src/src/order.rs, price_level.rs, book_side.rs,              *)
(* order_book.rs), driven one call at a time through submit_order and      *)
(* cancel_order.                                                           *)
(*                                                                         *)
(* Every Rust method is a pure operator from the receiver's value (and the *)
(* arguments) to a record holding the receiver's new value, the returned   *)
(* value and, where the method can panic, a panic flag; the receiver's     *)
(* value at a panic is what the method had written by then.  An Option<T>  *)
(* is a sequence of length at most one.                                    *)
(*                                                                         *)
(* The state is the OrderBook plus a record of the last call: its          *)
(* arguments, its outcome and the book before it.  A call is one step; the *)
(* caller then takes the outcome (Return) and may make the next call.      *)
(* Spec is the book under a caller that keeps cancel_order's contract,     *)
(* SpecAnyId the book under a caller that may cancel any id.               *)
(*                                                                         *)
(* DriverSpec is the pipeline of src/src/main.rs: the reader, worker and   *)
(* writer threads, one step per channel operation, their four channels and *)
(* the worker's order_books and order_symbols maps.                        *)
(***************************************************************************)
EXTENDS Integers, Sequences, FiniteSets, TLC

\* ------------------------------------------------------------------ bounds

\* Order ids the caller draws from; also the largest number of resting orders.
MaxOrderId == 3

\* Input domains of submit_order.
OrderIds == 1..MaxOrderId
Prices == {1, 2, 3}
Quantities == {1, 2}

\* The user that submits the order of an id.
UserOf(order_id) == order_id + 10

\* The largest number of records the reader finds in the input file.
MaxCommands == 3

\* The symbols, order ids and prices that the records of the input file name;
\* every record's quantity is 1.  With one price and one quantity a New record
\* rests at the top of its side or meets an exact match.
Symbols == {"A", "B"}
FileOrderIds == {1, 2}
FilePrices == {1}

\* The modulus of the unsigned word that holds volume, quantity and price.  The
\* code's word is u32; the model checker's integers are 32-bit signed, so the
\* word is modelled 30 bits wide (2^30) and sums of two words stay representable.
Modulus == 1073741824

\* The quantities of the orders given to the PriceLevel on its own: two small
\* ones and the largest value of the word.
LevelQuantities == {1, 2, Modulus - 1}

\* ------------------------------------------------------------------ Option

None == << >>
Some(x) == << x >>
IsSome(o) == o # << >>
Unwrap(o) == o[1]

\* ------------------------------------------------------------------ order.rs

Sides == {"Bid", "Ask"}

\* impl Not for Side
Not(side) == IF side = "Ask" THEN "Bid" ELSE "Ask"

\* Order::new
Order_new(id, user_id, side, price, quantity) ==
    [id |-> id, user_id |-> user_id, side |-> side, price |-> price,
     quantity |-> quantity]

\* ------------------------------------------------------------------ price_level.rs

\* PriceLevel::new
PriceLevel_new(price) == [volume |-> 0, price |-> price, orders |-> << >>]

\* Mutant of PriceLevel_append: the volume is set, not added to.
PriceLevel_append_set(pl, order) ==
    [level |-> [pl EXCEPT !.volume = order.quantity,
                          !.orders = Append(pl.orders, order)],
     ret |-> order.quantity]

\* PriceLevel::append: volume += quantity (unsigned word), push_back; the new
\* volume is returned.
PriceLevel_append(pl, order) ==
    [level |-> [pl EXCEPT !.volume = (pl.volume + order.quantity) % Modulus,
                          !.orders = Append(pl.orders, order)],
     ret |-> (pl.volume + order.quantity) % Modulus]

\* VecDeque::remove(pos)
RemoveAt(s, pos) == SubSeq(s, 1, pos - 1) \o SubSeq(s, pos + 1, Len(s))

\* iter().position(|&o| o == order): the first index holding an equal order, 0
\* for None.
Position(s, order) ==
    IF \E i \in 1..Len(s) : s[i] = order
    THEN CHOOSE i \in 1..Len(s) : s[i] = order /\ \A j \in 1..(i - 1) : s[j] # order
    ELSE 0

\* Mutant of PriceLevel_remove: the front of the queue is removed, whatever the
\* order.
PriceLevel_remove_front(pl, order) ==
    LET removed(vol, pos) ==
            IF pos = 0
            THEN [level |-> [pl EXCEPT !.volume = vol], ret |-> vol, panic |-> TRUE]
            ELSE [level |-> [pl EXCEPT !.volume = vol,
                                       !.orders = RemoveAt(pl.orders, 1)],
                  ret |-> vol, panic |-> FALSE]
    IN  removed((pl.volume - order.quantity) % Modulus, Position(pl.orders, order))

\* PriceLevel::remove: the volume is decremented first, then position().unwrap()
\* panics when the order is not in the queue.
PriceLevel_remove(pl, order) ==
    LET removed(vol, pos) ==
            IF pos = 0
            THEN [level |-> [pl EXCEPT !.volume = vol], ret |-> vol, panic |-> TRUE]
            ELSE [level |-> [pl EXCEPT !.volume = vol,
                                       !.orders = RemoveAt(pl.orders, pos)],
                  ret |-> vol, panic |-> FALSE]
    IN  removed((pl.volume - order.quantity) % Modulus, Position(pl.orders, order))

\* PriceLevel::is_empty
PriceLevel_is_empty(pl) == Len(pl.orders) = 0

\* Mutant of PriceLevel_trade: the scan takes the last order of the quantity.
PriceLevel_trade_last(pl, quantity) ==
    LET found(target, r) == [level |-> r.level, ret |-> Some(target), panic |-> r.panic]
        at(i) == found(pl.orders[i], PriceLevel_remove(pl, pl.orders[i]))
    IN  IF \E i \in 1..Len(pl.orders) : pl.orders[i].quantity = quantity
        THEN at(CHOOSE i \in 1..Len(pl.orders) :
                    /\ pl.orders[i].quantity = quantity
                    /\ \A j \in (i + 1)..Len(pl.orders) : pl.orders[j].quantity # quantity)
        ELSE [level |-> pl, ret |-> None, panic |-> FALSE]

\* PriceLevel::trade: the first order, in queue order, whose quantity equals the
\* requested one is removed through remove() and returned.
PriceLevel_trade(pl, quantity) ==
    LET found(target, r) == [level |-> r.level, ret |-> Some(target), panic |-> r.panic]
        at(i) == found(pl.orders[i], PriceLevel_remove(pl, pl.orders[i]))
    IN  IF \E i \in 1..Len(pl.orders) : pl.orders[i].quantity = quantity
        THEN at(CHOOSE i \in 1..Len(pl.orders) :
                    /\ pl.orders[i].quantity = quantity
                    /\ \A j \in 1..(i - 1) : pl.orders[j].quantity # quantity)
        ELSE [level |-> pl, ret |-> None, panic |-> FALSE]

\* ------------------------------------------------------------------ book_side.rs

\* BookSide::new: prices is a map from price to PriceLevel, here a function.
BookSide_new == << >>

\* RBMap::insert / RBMap::remove
MapInsert(m, k, v) == [x \in DOMAIN m \cup {k} |-> IF x = k THEN v ELSE m[x]]
MapRemove(m, k) == [x \in DOMAIN m \ {k} |-> m[x]]

\* Mutant of BookSide_append: a new level is made for every order.
BookSide_append_fresh(prices, order) ==
    LET appended(r) == [side |-> MapInsert(prices, order.price, r.level),
                        ret |-> r.ret]
    IN  appended(PriceLevel_append(PriceLevel_new(order.price), order))

\* BookSide::append: the level at the order's price, made when there is none,
\* takes the order; the level's new volume is returned.
BookSide_append(prices, order) ==
    LET appended(r) == [side |-> MapInsert(prices, order.price, r.level),
                        ret |-> r.ret]
    IN  IF order.price \in DOMAIN prices
        THEN appended(PriceLevel_append(prices[order.price], order))
        ELSE appended(PriceLevel_append(PriceLevel_new(order.price), order))

\* Mutant of BookSide_remove: an emptied level stays in the map.
BookSide_remove_keep(prices, order) ==
    LET removed(r) == [side |-> MapInsert(prices, order.price, r.level),
                       panic |-> r.panic]
    IN  IF order.price \notin DOMAIN prices
        THEN [side |-> prices, panic |-> FALSE]
        ELSE removed(PriceLevel_remove(prices[order.price], order))

\* BookSide::remove: no level at the price returns None; otherwise the level's
\* remove, and the level is deleted when it became empty.
BookSide_remove(prices, order) ==
    LET removed(r) ==
            IF r.panic
            THEN [side |-> MapInsert(prices, order.price, r.level), panic |-> TRUE]
            ELSE IF PriceLevel_is_empty(r.level)
            THEN [side |-> MapRemove(prices, order.price), panic |-> FALSE]
            ELSE [side |-> MapInsert(prices, order.price, r.level), panic |-> FALSE]
    IN  IF order.price \notin DOMAIN prices
        THEN [side |-> prices, panic |-> FALSE]
        ELSE removed(PriceLevel_remove(prices[order.price], order))

\* Mutant of BookSide_trade: an emptied level stays in the map.
BookSide_trade_keep(prices, price, quantity) ==
    LET traded(r) == [side |-> MapInsert(prices, price, r.level), ret |-> r.ret,
                      panic |-> r.panic]
    IN  IF price \notin DOMAIN prices
        THEN [side |-> prices, ret |-> None, panic |-> FALSE]
        ELSE traded(PriceLevel_trade(prices[price], quantity))

\* BookSide::trade: only the level at exactly `price` is tried; it is deleted
\* when the trade emptied it.
BookSide_trade(prices, price, quantity) ==
    LET traded(r) ==
            IF r.panic
            THEN [side |-> MapInsert(prices, price, r.level), ret |-> r.ret,
                  panic |-> TRUE]
            ELSE IF PriceLevel_is_empty(r.level)
            THEN [side |-> MapRemove(prices, price), ret |-> r.ret, panic |-> FALSE]
            ELSE [side |-> MapInsert(prices, price, r.level), ret |-> r.ret,
                  panic |-> FALSE]
    IN  IF price \notin DOMAIN prices
        THEN [side |-> prices, ret |-> None, panic |-> FALSE]
        ELSE traded(PriceLevel_trade(prices[price], quantity))

\* BookSide::get_price_volume
BookSide_get_price_volume(prices, price) ==
    IF price \in DOMAIN prices THEN Some(prices[price].volume) ELSE None

\* Mutant of BookSide_min: the level of the largest key.
BookSide_min_back(prices) ==
    IF DOMAIN prices = {} THEN None
    ELSE Some(prices[CHOOSE p \in DOMAIN prices : \A q \in DOMAIN prices : q <= p])

\* BookSide::min (RBMap::peek): the level of the smallest key.
BookSide_min(prices) ==
    IF DOMAIN prices = {} THEN None
    ELSE Some(prices[CHOOSE p \in DOMAIN prices : \A q \in DOMAIN prices : p <= q])

\* BookSide::max (RBMap::peek_back): the level of the largest key.
BookSide_max(prices) ==
    IF DOMAIN prices = {} THEN None
    ELSE Some(prices[CHOOSE p \in DOMAIN prices : \A q \in DOMAIN prices : q <= p])

\* ------------------------------------------------------------------ order_book.rs

\* OrderBook::new: orders is the index from order id to Order.
OrderBook_new == [orders |-> << >>, asks |-> BookSide_new, bids |-> BookSide_new]

\* Option::map(|level| level.price)
PriceOf(level) == IF IsSome(level) THEN Some(Unwrap(level).price) ELSE None

\* OrderBook::best_ask_price
best_ask_price(b) == PriceOf(BookSide_min(b.asks))

\* OrderBook::best_bid_price
best_bid_price(b) == PriceOf(BookSide_max(b.bids))

\* OrderBook::get_best_for_side
get_best_for_side(b, side) ==
    IF side = "Ask" THEN best_ask_price(b) ELSE best_bid_price(b)

\* OrderBook::get_side
get_side(b, side) == IF side = "Ask" THEN b.asks ELSE b.bids

\* Mutant of set_side: the reference is to the opposite side.
set_side_swapped(b, side, prices) ==
    IF side = "Ask" THEN [b EXCEPT !.bids = prices] ELSE [b EXCEPT !.asks = prices]

\* OrderBook::get_side_mut, followed by the write through the reference.
set_side(b, side, prices) ==
    IF side = "Ask" THEN [b EXCEPT !.asks = prices] ELSE [b EXCEPT !.bids = prices]

\* top.map_or(None, |t| get_side(side).get_price_volume(t))
VolumeAt(b, side, top) ==
    IF IsSome(top) THEN BookSide_get_price_volume(get_side(b, side), Unwrap(top))
    ELSE None

\* Mutant of OrderBook_append: the order goes to its side but not into the index.
OrderBook_append_unindexed(b, order) ==
    LET topped(b2, top) == [book |-> b2, top |-> top,
                            volume |-> VolumeAt(b2, order.side, top)]
        appended(b2) == topped(b2, get_best_for_side(b2, order.side))
    IN  appended(set_side(b, order.side,
                          BookSide_append(get_side(b, order.side), order).side))

\* Mutant of OrderBook_append: the top and its volume are read before the append.
OrderBook_append_stale(b, order) ==
    LET topped(b2, top) == [book |-> b2, top |-> top,
                            volume |-> VolumeAt(b, order.side, top)]
        appended(b2) == topped(b2, get_best_for_side(b, order.side))
        indexed(b1) == appended(set_side(b1, order.side,
                           BookSide_append(get_side(b1, order.side), order).side))
    IN  indexed([b EXCEPT !.orders = MapInsert(b.orders, order.id, order)])

\* OrderBook::append: index insert, side append, then the side's top and the
\* volume at the top.
OrderBook_append(b, order) ==
    LET topped(b2, top) == [book |-> b2, top |-> top,
                            volume |-> VolumeAt(b2, order.side, top)]
        appended(b2) == topped(b2, get_best_for_side(b2, order.side))
        indexed(b1) == appended(set_side(b1, order.side,
                           BookSide_append(get_side(b1, order.side), order).side))
    IN  indexed([b EXCEPT !.orders = MapInsert(b.orders, order.id, order)])

\* Mutant of OrderBook_remove: the id stays in the index.
OrderBook_remove_indexed(b, order) ==
    LET removed(r) == [book |-> set_side(b, order.side, r.side), panic |-> r.panic]
    IN  removed(BookSide_remove(get_side(b, order.side), order))

\* OrderBook::remove: index remove, then the side's remove.
OrderBook_remove(b, order) ==
    LET removed(b1, r) == [book |-> set_side(b1, order.side, r.side),
                           panic |-> r.panic]
    IN  removed([b EXCEPT !.orders = MapRemove(b.orders, order.id)],
                BookSide_remove(get_side(b, order.side), order))

\* Mutant of get_cmp_for_side: strict comparisons.
get_cmp_for_side_strict(side, a, b) == IF side = "Ask" THEN a < b ELSE a > b

\* OrderBook::get_cmp_for_side, applied: le for an Ask, ge for a Bid.
get_cmp_for_side(side, a, b) == IF side = "Ask" THEN a <= b ELSE a >= b

\* OrderBook::trade: the trade is tried on the opposite side.
OrderBook_trade(b, side, price, quantity) ==
    LET traded(r) == [book |-> set_side(b, Not(side), r.side), ret |-> r.ret,
                      panic |-> r.panic]
    IN  traded(BookSide_trade(get_side(b, Not(side)), price, quantity))

\* A call that ends in a panic instead of an outcome, and the place of the panic.
Panic(at) == [type |-> "Panic", at |-> at]

\* Mutant of trade_ids: the test on the maker's side is inverted.
trade_ids_inverted(order, user_id, order_id) ==
    IF order.side = "Bid"
    THEN [user_id_buy |-> user_id, order_id_buy |-> order_id,
          user_id_sell |-> order.user_id, order_id_sell |-> order.id]
    ELSE [user_id_buy |-> order.user_id, order_id_buy |-> order.id,
          user_id_sell |-> user_id, order_id_sell |-> order_id]

\* The buy and sell ids of try_trade, by the maker's side.
trade_ids(order, user_id, order_id) ==
    IF order.side = "Ask"
    THEN [user_id_buy |-> user_id, order_id_buy |-> order_id,
          user_id_sell |-> order.user_id, order_id_sell |-> order.id]
    ELSE [user_id_buy |-> order.user_id, order_id_buy |-> order.id,
          user_id_sell |-> user_id, order_id_sell |-> order_id]

\* Mutant of trade_top: the traded price is compared with the top after the trade.
trade_top_after(b, side, price, top_price) ==
    IF get_best_for_side(b, Not(side)) = Some(price)
    THEN [top_price |-> Some(price), side |-> Some(Not(side)),
          volume |-> BookSide_get_price_volume(get_side(b, Not(side)), price),
          panic |-> FALSE]
    ELSE [top_price |-> None, side |-> None, volume |-> None, panic |-> FALSE]

\* The top-of-book part of try_trade: when the opposite top before the trade was
\* the traded price, the new top, the side and the volume at the new top.  The
\* volume is an Option<Option<u32>>, None when the side has no top left, and
\* its unwrap() then panics.
trade_top(b, side, price, top_price) ==
    LET unwrapped(new_top, volume) ==
            IF IsSome(volume)
            THEN [top_price |-> new_top, side |-> Some(Not(side)),
                  volume |-> Unwrap(volume), panic |-> FALSE]
            ELSE [top_price |-> new_top, side |-> Some(Not(side)),
                  volume |-> None, panic |-> TRUE]
        changed(new_top) ==
            unwrapped(new_top,
                      IF IsSome(new_top)
                      THEN Some(BookSide_get_price_volume(get_side(b, Not(side)),
                                                          Unwrap(new_top)))
                      ELSE None)
    IN  IF Unwrap(top_price) = price
        THEN changed(get_best_for_side(b, Not(side)))
        ELSE [top_price |-> None, side |-> None, volume |-> None, panic |-> FALSE]

\* OrderBook::try_trade
try_trade(b, side, price, quantity, user_id, order_id) ==
    LET reported(b1, ids, top) ==
            IF top.panic
            THEN [book |-> b1, ret |-> None, panic |-> TRUE]
            ELSE [book |-> b1, panic |-> FALSE,
                  ret |-> Some([type |-> "Traded",
                                user_id |-> user_id, order_id |-> order_id,
                                user_id_buy |-> ids.user_id_buy,
                                order_id_buy |-> ids.order_id_buy,
                                user_id_sell |-> ids.user_id_sell,
                                order_id_sell |-> ids.order_id_sell,
                                price |-> price, quantity |-> quantity,
                                side |-> top.side, top_price |-> top.top_price,
                                volume |-> top.volume])]
        unindexed(b1, order, top_price) ==
            reported(b1, trade_ids(order, user_id, order_id),
                     trade_top(b1, side, price, top_price))
        matched(b1, order, top_price) ==
            unindexed([b1 EXCEPT !.orders = MapRemove(b1.orders, order.id)],
                      order, top_price)
        traded(t, top_price) ==
            IF t.panic
            THEN [book |-> t.book, ret |-> None, panic |-> TRUE]
            ELSE IF IsSome(t.ret)
            THEN matched(t.book, Unwrap(t.ret), top_price)
            ELSE [book |-> t.book, ret |-> None, panic |-> FALSE]
    IN  traded(OrderBook_trade(b, side, price, quantity),
               get_best_for_side(b, Not(side)))

\* Mutant of crosses: the price is compared with the best of the order's own side.
crosses_own_side(b, side, price) ==
    LET against(opp_best) ==
            IsSome(opp_best) /\ get_cmp_for_side(side, price, Unwrap(opp_best))
    IN  against(get_best_for_side(b, side))

\* The crossing check of submit_order: the opposite side has a best price and the
\* price is better than or equal to it under the side's comparator.
crosses(b, side, price) ==
    LET against(opp_best) ==
            IsSome(opp_best) /\ get_cmp_for_side(side, price, Unwrap(opp_best))
    IN  against(get_best_for_side(b, Not(side)))

\* Mutant of submit_order: an order that crosses is rejected and rests all the same.
submit_order_rejected_rests(b, side, price, quantity, user_id, order_id) ==
    LET top_of_book(a) ==
            [book |-> a.book,
             outcome |-> [type |-> "TopOfBook", user_id |-> user_id,
                          order_id |-> order_id, top_price |-> a.top,
                          volume |-> a.volume, side |-> side]]
        created(a) ==
            [book |-> a.book,
             outcome |-> [type |-> "Created", user_id |-> user_id,
                          order_id |-> order_id]]
        rejected(a) ==
            [book |-> a.book,
             outcome |-> [type |-> "Rejected", user_id |-> user_id,
                          order_id |-> order_id]]
        rest(b1, order, own_best) ==
            IF IsSome(own_best)
            THEN IF get_cmp_for_side(side, price, Unwrap(own_best))
                 THEN top_of_book(OrderBook_append(b1, order))
                 ELSE created(OrderBook_append(b1, order))
            ELSE top_of_book(OrderBook_append(b1, order))
        tried(t) ==
            IF t.panic
            THEN [book |-> t.book, outcome |-> Panic("try_trade")]
            ELSE IF IsSome(t.ret)
            THEN [book |-> t.book, outcome |-> Unwrap(t.ret)]
            ELSE IF crosses(t.book, side, price)
            THEN rejected(OrderBook_append(t.book,
                              Order_new(order_id, user_id, side, price, quantity)))
            ELSE rest(t.book, Order_new(order_id, user_id, side, price, quantity),
                      get_best_for_side(t.book, side))
    IN  tried(try_trade(b, side, price, quantity, user_id, order_id))

\* Mutant of submit_order: after a trade the incoming order rests as well.
submit_order_taker_rests(b, side, price, quantity, user_id, order_id) ==
    LET top_of_book(a) ==
            [book |-> a.book,
             outcome |-> [type |-> "TopOfBook", user_id |-> user_id,
                          order_id |-> order_id, top_price |-> a.top,
                          volume |-> a.volume, side |-> side]]
        created(a) ==
            [book |-> a.book,
             outcome |-> [type |-> "Created", user_id |-> user_id,
                          order_id |-> order_id]]
        traded(a, ret) == [book |-> a.book, outcome |-> ret]
        rest(b1, order, own_best) ==
            IF IsSome(own_best)
            THEN IF get_cmp_for_side(side, price, Unwrap(own_best))
                 THEN top_of_book(OrderBook_append(b1, order))
                 ELSE created(OrderBook_append(b1, order))
            ELSE top_of_book(OrderBook_append(b1, order))
        tried(t) ==
            IF t.panic
            THEN [book |-> t.book, outcome |-> Panic("try_trade")]
            ELSE IF IsSome(t.ret)
            THEN traded(OrderBook_append(t.book,
                            Order_new(order_id, user_id, side, price, quantity)),
                        Unwrap(t.ret))
            ELSE IF crosses(t.book, side, price)
            THEN [book |-> t.book,
                  outcome |-> [type |-> "Rejected", user_id |-> user_id,
                               order_id |-> order_id]]
            ELSE rest(t.book, Order_new(order_id, user_id, side, price, quantity),
                      get_best_for_side(t.book, side))
    IN  tried(try_trade(b, side, price, quantity, user_id, order_id))

\* OrderBook::submit_order
submit_order(b, side, price, quantity, user_id, order_id) ==
    LET top_of_book(a) ==
            [book |-> a.book,
             outcome |-> [type |-> "TopOfBook", user_id |-> user_id,
                          order_id |-> order_id, top_price |-> a.top,
                          volume |-> a.volume, side |-> side]]
        created(a) ==
            [book |-> a.book,
             outcome |-> [type |-> "Created", user_id |-> user_id,
                          order_id |-> order_id]]
        rest(b1, order, own_best) ==
            IF IsSome(own_best)
            THEN IF get_cmp_for_side(side, price, Unwrap(own_best))
                 THEN top_of_book(OrderBook_append(b1, order))
                 ELSE created(OrderBook_append(b1, order))
            ELSE top_of_book(OrderBook_append(b1, order))
        tried(t) ==
            IF t.panic
            THEN [book |-> t.book, outcome |-> Panic("try_trade")]
            ELSE IF IsSome(t.ret)
            THEN [book |-> t.book, outcome |-> Unwrap(t.ret)]
            ELSE IF crosses(t.book, side, price)
            THEN [book |-> t.book,
                  outcome |-> [type |-> "Rejected", user_id |-> user_id,
                               order_id |-> order_id]]
            ELSE rest(t.book, Order_new(order_id, user_id, side, price, quantity),
                      get_best_for_side(t.book, side))
    IN  tried(try_trade(b, side, price, quantity, user_id, order_id))

\* Mutant of cancel_order: an id that is not in the index is acknowledged.
cancel_order_silent(b, order_id) ==
    LET answered(b1, order, top_price) ==
            [book |-> b1,
             outcome |-> [type |-> "TopOfBook", user_id |-> order.user_id,
                          order_id |-> order_id, side |-> order.side,
                          top_price |-> top_price,
                          volume |-> VolumeAt(b1, order.side, top_price)]]
        removed(r, order, top) ==
            IF r.panic
            THEN [book |-> r.book, outcome |-> Panic("PriceLevel::remove")]
            ELSE IF Unwrap(top) # order.price
            THEN [book |-> r.book,
                  outcome |-> [type |-> "Created", user_id |-> order.user_id,
                               order_id |-> order_id]]
            ELSE answered(r.book, order, get_best_for_side(r.book, order.side))
        found(order, top) ==
            IF ~IsSome(top)
            THEN [book |-> b, outcome |-> Panic("cancel_order")]
            ELSE removed(OrderBook_remove(b, order), order, top)
    IN  IF order_id \notin DOMAIN b.orders
        THEN [book |-> b,
              outcome |-> [type |-> "Created", user_id |-> UserOf(order_id),
                           order_id |-> order_id]]
        ELSE found(b.orders[order_id], get_best_for_side(b, b.orders[order_id].side))

\* OrderBook::cancel_order
cancel_order(b, order_id) ==
    LET answered(b1, order, top_price) ==
            [book |-> b1,
             outcome |-> [type |-> "TopOfBook", user_id |-> order.user_id,
                          order_id |-> order_id, side |-> order.side,
                          top_price |-> top_price,
                          volume |-> VolumeAt(b1, order.side, top_price)]]
        removed(r, order, top) ==
            IF r.panic
            THEN [book |-> r.book, outcome |-> Panic("PriceLevel::remove")]
            ELSE IF Unwrap(top) # order.price
            THEN [book |-> r.book,
                  outcome |-> [type |-> "Created", user_id |-> order.user_id,
                               order_id |-> order_id]]
            ELSE answered(r.book, order, get_best_for_side(r.book, order.side))
        found(order, top) ==
            IF ~IsSome(top)
            THEN [book |-> b, outcome |-> Panic("cancel_order")]
            ELSE removed(OrderBook_remove(b, order), order, top)
    IN  IF order_id \notin DOMAIN b.orders
        THEN [book |-> b, outcome |-> Panic("cancel_order")]
        ELSE found(b.orders[order_id], get_best_for_side(b, b.orders[order_id].side))

\* ------------------------------------------------------------------ main.rs

\* enum Command, as parse_record builds it from a well-formed record.
Flush == [type |-> "Flush"]
NewCommands ==
    {[type |-> "New", user_id |-> UserOf(i), symbol |-> s, price |-> p,
      quantity |-> 1, side |-> sd, order_id |-> i] :
        i \in FileOrderIds, s \in Symbols, p \in FilePrices, sd \in Sides}
CancelCommands == {[type |-> "Cancel", order_id |-> i] : i \in FileOrderIds}
Commands == NewCommands \cup CancelCommands \cup {Flush}

\* HashMap::new
HashMap_new == << >>

\* No call into an OrderBook.
NoBookCall == [op |-> "none"]

\* Mutant of match_Flush: the books are kept.
match_Flush_keeps(books, symbols) ==
    [order_books |-> books, order_symbols |-> symbols, outcome |-> None,
     panic |-> FALSE, call |-> NoBookCall]

\* The Command::Flush arm: order_books is a new map, the outcome is None.
match_Flush(books, symbols) ==
    [order_books |-> HashMap_new, order_symbols |-> symbols, outcome |-> None,
     panic |-> FALSE, call |-> NoBookCall]

\* The Command::New arm: the book of the symbol, made when there is none, takes
\* the order; the order's symbol is noted whatever the outcome.  `call` records
\* the call and the book it was made on.
match_New(c, books, symbols) ==
    LET submitted(b, r) ==
            [order_books |-> MapInsert(books, c.symbol, r.book),
             order_symbols |-> MapInsert(symbols, c.order_id, c.symbol),
             outcome |-> Some(r.outcome),
             panic |-> r.outcome.type = "Panic",
             call |-> [op |-> "submit_order", symbol |-> c.symbol,
                       order_id |-> c.order_id, book |-> b]]
        entry(b) == submitted(b, submit_order(b, c.side, c.price, c.quantity,
                                              c.user_id, c.order_id))
    IN  IF c.symbol \in DOMAIN books THEN entry(books[c.symbol])
        ELSE entry(OrderBook_new)

\* The Command::Cancel arm: order_symbols.get(..).unwrap(), then
\* order_books.get_mut(..).unwrap(), then cancel_order on that book.
match_Cancel(c, books, symbols) ==
    LET cancelled(sym, r) ==
            [order_books |-> MapInsert(books, sym, r.book),
             order_symbols |-> symbols,
             outcome |-> Some(r.outcome),
             panic |-> r.outcome.type = "Panic",
             call |-> [op |-> "cancel_order", symbol |-> sym,
                       order_id |-> c.order_id, book |-> books[sym]]]
        unwrapped(at) ==
            [order_books |-> books, order_symbols |-> symbols,
             outcome |-> Some(Panic(at)), panic |-> TRUE, call |-> NoBookCall]
    IN  IF c.order_id \notin DOMAIN symbols THEN unwrapped("order_symbols")
        ELSE IF symbols[c.order_id] \notin DOMAIN books THEN unwrapped("order_books")
        ELSE cancelled(symbols[c.order_id],
                       cancel_order(books[symbols[c.order_id]], c.order_id))

\* The match on the command in the worker loop.
match_command(c, books, symbols) ==
    IF c.type = "Flush" THEN match_Flush(books, symbols)
    ELSE IF c.type = "New" THEN match_New(c, books, symbols)
    ELSE match_Cancel(c, books, symbols)

\* Mutant of Send: a None is not sent.
Send_some(channel, message) ==
    IF message.outcome = None THEN channel ELSE Append(channel, message)

\* Sender::send on a channel of messages.
Send(channel, message) == Append(channel, message)

\* ------------------------------------------------------------------ state

VARIABLES
    orders,     \* OrderBook.orders: order id -> Order
    asks,       \* OrderBook.asks: price -> PriceLevel
    bids,       \* OrderBook.bids: price -> PriceLevel
    call,       \* the call that has just ended, with its arguments
    outcome,    \* the OrderOutcome it returned, or the panic it ended in
    pre,        \* the book, and the arrival order, as they were before that call
    arrival     \* history: the ids of the resting orders, oldest submission first

VARIABLES
    reader_thread,      \* where the reader thread is: "send", "recv" or "done"
    worker,             \* the main thread: where it is, its command, its outcome
                        \* and (history) its last call into an OrderBook
    writer_thread,      \* the writer thread: where it is and the outcome it holds
    from_reader,        \* channel reader -> worker: the commands in flight
    reader_from_worker, \* channel worker -> reader: the number of () in flight
    from_writer,        \* channel writer -> worker: the number of () in flight
    writer_from_worker, \* channel worker -> writer: the outcomes in flight
    order_books,        \* symbol -> OrderBook
    order_symbols,      \* order id -> symbol
    records,            \* history: the commands read, in reading order
    received,           \* history: the messages the writer received, in order
    printed             \* history: the messages print_outcome was called on

VARIABLES
    used_ids,   \* history: the order ids that submit_order has been called with
    level,      \* a PriceLevel on its own
    level_op    \* the last method called on it, with its argument, the level
                \* before the call and what the call came to

core_vars == << orders, asks, bids, call, outcome, pre, arrival >>

driver_vars == << reader_thread, worker, writer_thread, from_reader,
                 reader_from_worker, from_writer, writer_from_worker,
                 order_books, order_symbols, records, received, printed >>

unit_vars == << used_ids, level, level_op >>

vars == << core_vars, driver_vars, unit_vars >>

book == [orders |-> orders, asks |-> asks, bids |-> bids]

NoCall == [op |-> "none"]
NoOutcome == [type |-> "None"]
NoPre == [orders |-> << >>, asks |-> << >>, bids |-> << >>, arrival |-> << >>]

\* The arrival history after a call: the ids that left the index are dropped,
\* the id that entered it goes last.
Arrived(old, before, after) ==
    LET kept == SelectSeq(old, LAMBDA i : i \in DOMAIN after.orders)
        new == DOMAIN after.orders \ DOMAIN before.orders
    IN  IF new = {} THEN kept ELSE Append(kept, CHOOSE i \in new : TRUE)

\* The worker's record while it holds no command.
Idle(pc) == [pc |-> pc, seq |-> 0, command |-> Flush, outcome |-> None,
             call |-> NoBookCall]

\* main, up to the worker loop: the channels are empty, the threads are spawned,
\* the maps are new.
DriverInit ==
    /\ reader_thread = "send"
    /\ worker = Idle("recv")
    /\ writer_thread = [pc |-> "start", seq |-> 0, outcome |-> None]
    /\ from_reader = << >>
    /\ reader_from_worker = 0
    /\ from_writer = 0
    /\ writer_from_worker = << >>
    /\ order_books = HashMap_new
    /\ order_symbols = HashMap_new
    /\ records = << >>
    /\ received = << >>
    /\ printed = << >>

\* No call has been made on the level.
NoLevelOp ==
    [op |-> "none", arg |-> 0, overflow_checks |-> FALSE, pre |-> PriceLevel_new(1),
     panic |-> FALSE, ret |-> None]

\* No id has been submitted; the PriceLevel on its own is new, at price 1.
UnitInit ==
    /\ used_ids = {}
    /\ level = PriceLevel_new(1)
    /\ level_op = NoLevelOp

Init ==
    /\ orders = OrderBook_new.orders
    /\ asks = OrderBook_new.asks
    /\ bids = OrderBook_new.bids
    /\ call = NoCall
    /\ outcome = NoOutcome
    /\ pre = NoPre
    /\ arrival = << >>
    /\ DriverInit
    /\ UnitInit

\* A call c runs to its end with result r: the book is the one it left, and the
\* call, its outcome and the book before it are on record.
Step(c, r) ==
    /\ call = NoCall
    /\ orders' = r.book.orders
    /\ asks' = r.book.asks
    /\ bids' = r.book.bids
    /\ call' = c
    /\ outcome' = r.outcome
    /\ pre' = [orders |-> orders, asks |-> asks, bids |-> bids, arrival |-> arrival]
    /\ arrival' = Arrived(arrival, book, r.book)
    /\ UNCHANGED << driver_vars, unit_vars >>

\* A submit_order call.  The caller's contract: the id is not the id of a resting
\* order (the id of an order that left the book may come again), and an order id
\* belongs to one user.
SubmitOrder ==
    \E side \in Sides, price \in Prices, quantity \in Quantities,
       order_id \in OrderIds \ DOMAIN orders :
        Step([op |-> "submit_order", side |-> side, price |-> price,
              quantity |-> quantity, user_id |-> UserOf(order_id),
              order_id |-> order_id],
             submit_order(book, side, price, quantity, UserOf(order_id), order_id))

\* A cancel_order call.  The caller's contract: the id is the id of a resting order.
CancelOrder ==
    \E order_id \in DOMAIN orders :
        Step([op |-> "cancel_order", order_id |-> order_id],
             cancel_order(book, order_id))

\* The caller takes the outcome; the book is ready for the next call.
Return ==
    /\ call # NoCall
    /\ call' = NoCall
    /\ outcome' = NoOutcome
    /\ pre' = NoPre
    /\ UNCHANGED << orders, asks, bids, arrival >>
    /\ UNCHANGED << driver_vars, unit_vars >>

Next == SubmitOrder \/ CancelOrder \/ Return

Spec == Init /\ [][Next]_vars

\* A cancel_order call outside the caller's contract: the id is not the id of a
\* resting order.
CancelUnknown ==
    \E order_id \in OrderIds \ DOMAIN orders :
        Step([op |-> "cancel_order", order_id |-> order_id],
             cancel_order(book, order_id))

NextAnyId == SubmitOrder \/ CancelOrder \/ CancelUnknown \/ Return

\* The OrderBook under a caller that may cancel any id.
SpecAnyId == Init /\ [][NextAnyId]_vars

\* A call as in Step, of a caller that keeps count of the ids it has submitted.
FreshStep(c, r) ==
    /\ call = NoCall
    /\ orders' = r.book.orders
    /\ asks' = r.book.asks
    /\ bids' = r.book.bids
    /\ call' = c
    /\ outcome' = r.outcome
    /\ pre' = [orders |-> orders, asks |-> asks, bids |-> bids, arrival |-> arrival]
    /\ arrival' = Arrived(arrival, book, r.book)
    /\ used_ids' = IF c.op = "submit_order" THEN used_ids \cup {c.order_id}
                   ELSE used_ids
    /\ UNCHANGED << driver_vars, level, level_op >>

\* A submit_order call with an id that no earlier call has used.
SubmitFresh ==
    \E side \in Sides, price \in Prices, quantity \in Quantities,
       order_id \in OrderIds \ used_ids :
        FreshStep([op |-> "submit_order", side |-> side, price |-> price,
                   quantity |-> quantity, user_id |-> UserOf(order_id),
                   order_id |-> order_id],
                  submit_order(book, side, price, quantity, UserOf(order_id),
                               order_id))

\* A cancel_order call of that caller; the id is the id of a resting order.
CancelFresh ==
    \E order_id \in DOMAIN orders :
        FreshStep([op |-> "cancel_order", order_id |-> order_id],
                  cancel_order(book, order_id))

NextFreshIds == SubmitFresh \/ CancelFresh \/ Return

\* The OrderBook under a caller that keeps the contract and never uses an order
\* id twice.
SpecFreshIds == Init /\ [][NextFreshIds]_vars

\* ------------------------------------------------------------------ price_level.rs, on its own

\* The orders given to the PriceLevel on its own: Asks at the level's price.
LevelOrders ==
    {Order_new(id, UserOf(id), "Ask", 1, q) : id \in OrderIds, q \in LevelQuantities}

\* The build: with overflow checks (the debug profile) `+=` and `-=` panic when
\* the result is out of the word's range, without them (the release profile)
\* the result wraps.  The first call fixes it for the run.
Builds == IF level_op.op = "none" THEN BOOLEAN ELSE {level_op.overflow_checks}

\* The record of a call on the level: r is what the method's operator gives,
\* overflow says that the arithmetic left the word's range.  Under overflow
\* checks an overflow is a panic before anything is written.
LevelCalled(op, arg, overflow_checks, overflow, r) ==
    /\ level' = IF overflow_checks /\ overflow THEN level ELSE r.level
    /\ level_op' = [op |-> op, arg |-> arg, overflow_checks |-> overflow_checks,
                    pre |-> level,
                    panic |-> (overflow_checks /\ overflow) \/ r.panic,
                    ret |-> IF (overflow_checks /\ overflow) \/ r.panic THEN None
                            ELSE Some(r.ret)]
    /\ UNCHANGED << core_vars, driver_vars, used_ids >>

\* The caller has a level to call: the last call did not panic.
LevelUsable == ~level_op.panic

\* PriceLevel::append of an order whose id is not in the queue.
LevelAppend ==
    /\ LevelUsable
    /\ Len(level.orders) < MaxOrderId
    /\ \E order \in LevelOrders, overflow_checks \in Builds :
           /\ \A i \in 1..Len(level.orders) : level.orders[i].id # order.id
           /\ LevelCalled("append", order, overflow_checks,
                          level.volume + order.quantity >= Modulus,
                          [level |-> PriceLevel_append(level, order).level,
                           ret |-> PriceLevel_append(level, order).ret,
                           panic |-> FALSE])

\* PriceLevel::remove of any order, in the queue or not.
LevelRemove ==
    /\ LevelUsable
    /\ \E order \in LevelOrders, overflow_checks \in Builds :
           LevelCalled("remove", order, overflow_checks,
                       level.volume - order.quantity < 0,
                       PriceLevel_remove(level, order))

\* PriceLevel::trade of any quantity.
LevelTrade ==
    /\ LevelUsable
    /\ \E quantity \in LevelQuantities, overflow_checks \in Builds :
           LevelCalled("trade", quantity, overflow_checks,
                       /\ IsSome(PriceLevel_trade(level, quantity).ret)
                       /\ level.volume - quantity < 0,
                       PriceLevel_trade(level, quantity))

LevelNext == LevelAppend \/ LevelRemove \/ LevelTrade

\* A PriceLevel under a caller that may append any order with a new id, and
\* remove and trade anything.
LevelSpec == Init /\ [][LevelNext]_vars

\* ------------------------------------------------------------------ main.rs, threads

\* The process is alive: a panic of the main thread ends it, with every thread.
Running == worker.pc # "panicked"

\* reader_thread, line 53: the next record is read, parsed and sent.
ReaderSend ==
    /\ Running
    /\ reader_thread = "send"
    /\ Len(records) < MaxCommands
    /\ \E c \in Commands :
           /\ records' = Append(records, c)
           /\ from_reader' = Append(from_reader,
                                    [seq |-> Len(records) + 1, command |-> c])
    /\ reader_thread' = "recv"
    /\ UNCHANGED << worker, writer_thread, reader_from_worker, from_writer,
                    writer_from_worker, order_books, order_symbols, received,
                    printed, core_vars, unit_vars >>

\* reader_thread, line 54: the worker's () is awaited.
ReaderRecv ==
    /\ Running
    /\ reader_thread = "recv"
    /\ reader_from_worker > 0
    /\ reader_from_worker' = reader_from_worker - 1
    /\ reader_thread' = "send"
    /\ UNCHANGED << worker, writer_thread, from_reader, from_writer,
                    writer_from_worker, order_books, order_symbols, records,
                    received, printed, core_vars, unit_vars >>

\* reader_thread, line 51: no record is left; the thread ends and its sender
\* is dropped.
ReaderEnd ==
    /\ Running
    /\ reader_thread = "send"
    /\ reader_thread' = "done"
    /\ UNCHANGED << worker, writer_thread, from_reader, reader_from_worker,
                    from_writer, writer_from_worker, order_books, order_symbols,
                    records, received, printed, core_vars, unit_vars >>

\* Worker, line 84: a command is received.
WorkerRecv ==
    /\ worker.pc = "recv"
    /\ from_reader # << >>
    /\ worker' = [pc |-> "ack", seq |-> Head(from_reader).seq,
                  command |-> Head(from_reader).command, outcome |-> None,
                  call |-> NoBookCall]
    /\ from_reader' = Tail(from_reader)
    /\ UNCHANGED << reader_thread, writer_thread, reader_from_worker, from_writer,
                    writer_from_worker, order_books, order_symbols, records,
                    received, printed, core_vars, unit_vars >>

\* Worker, line 84: the channel is empty and the reader's sender is dropped; the
\* loop ends and to_writer is dropped (line 111).
WorkerRecvErr ==
    /\ worker.pc = "recv"
    /\ from_reader = << >>
    /\ reader_thread = "done"
    /\ worker' = Idle("join")
    /\ UNCHANGED << reader_thread, writer_thread, from_reader, reader_from_worker,
                    from_writer, writer_from_worker, order_books, order_symbols,
                    records, received, printed, core_vars, unit_vars >>

\* Worker, line 85: the reader is let go on.
WorkerAck ==
    /\ worker.pc = "ack"
    /\ reader_from_worker' = reader_from_worker + 1
    /\ worker' = [worker EXCEPT !.pc = "match"]
    /\ UNCHANGED << reader_thread, writer_thread, from_reader, from_writer,
                    writer_from_worker, order_books, order_symbols, records,
                    received, printed, core_vars, unit_vars >>

\* The worker after the match: on a panic the main thread is gone.
Matched(r) ==
    /\ worker' = [worker EXCEPT !.pc = IF r.panic THEN "panicked" ELSE "from_writer",
                                !.outcome = r.outcome, !.call = r.call]
    /\ order_books' = r.order_books
    /\ order_symbols' = r.order_symbols

\* Worker, lines 88-104: the command is performed.
WorkerMatch ==
    /\ worker.pc = "match"
    /\ Matched(match_command(worker.command, order_books, order_symbols))
    /\ UNCHANGED << reader_thread, writer_thread, from_reader, reader_from_worker,
                    from_writer, writer_from_worker, records, received, printed,
                    core_vars, unit_vars >>

\* Worker, line 106: the writer's () is awaited.
WorkerFromWriter ==
    /\ worker.pc = "from_writer"
    /\ from_writer > 0
    /\ from_writer' = from_writer - 1
    /\ worker' = [worker EXCEPT !.pc = "to_writer"]
    /\ UNCHANGED << reader_thread, writer_thread, from_reader, reader_from_worker,
                    writer_from_worker, order_books, order_symbols, records,
                    received, printed, core_vars, unit_vars >>

\* Worker, line 107: the outcome is sent to the writer.
WorkerToWriter ==
    /\ worker.pc = "to_writer"
    /\ writer_from_worker' = Send(writer_from_worker,
                                  [seq |-> worker.seq, outcome |-> worker.outcome])
    /\ worker' = [worker EXCEPT !.pc = "recv"]
    /\ UNCHANGED << reader_thread, writer_thread, from_reader, reader_from_worker,
                    from_writer, order_books, order_symbols, records, received,
                    printed, core_vars, unit_vars >>

\* Worker, lines 112-113: both threads are joined.
WorkerJoin ==
    /\ worker.pc = "join"
    /\ writer_thread.pc = "done"
    /\ reader_thread = "done"
    /\ worker' = Idle("done")
    /\ UNCHANGED << reader_thread, writer_thread, from_reader, reader_from_worker,
                    from_writer, writer_from_worker, order_books, order_symbols,
                    records, received, printed, core_vars, unit_vars >>

\* writer_thread, line 61: the worker is started.
WriterStart ==
    /\ Running
    /\ writer_thread.pc = "start"
    /\ from_writer' = from_writer + 1
    /\ writer_thread' = [writer_thread EXCEPT !.pc = "recv"]
    /\ UNCHANGED << reader_thread, worker, from_reader, reader_from_worker,
                    writer_from_worker, order_books, order_symbols, records,
                    received, printed, core_vars, unit_vars >>

\* writer_thread, line 64: a message of the worker is received.
WriterRecv ==
    /\ Running
    /\ writer_thread.pc = "recv"
    /\ writer_from_worker # << >>
    /\ writer_thread' = [pc |-> "send", seq |-> Head(writer_from_worker).seq,
                         outcome |-> Head(writer_from_worker).outcome]
    /\ received' = Append(received, Head(writer_from_worker))
    /\ writer_from_worker' = Tail(writer_from_worker)
    /\ UNCHANGED << reader_thread, worker, from_reader, reader_from_worker,
                    from_writer, order_books, order_symbols, records, printed,
                    core_vars, unit_vars >>

\* writer_thread, line 64: the channel is empty and to_writer is dropped; the
\* thread ends.
WriterRecvErr ==
    /\ Running
    /\ writer_thread.pc = "recv"
    /\ writer_from_worker = << >>
    /\ worker.pc \in {"join", "done"}
    /\ writer_thread' = [pc |-> "done", seq |-> 0, outcome |-> None]
    /\ UNCHANGED << reader_thread, worker, from_reader, reader_from_worker,
                    from_writer, writer_from_worker, order_books, order_symbols,
                    records, received, printed, core_vars, unit_vars >>

\* writer_thread, line 65: the worker is let go on.
WriterSend ==
    /\ Running
    /\ writer_thread.pc = "send"
    /\ from_writer' = from_writer + 1
    /\ writer_thread' = [writer_thread EXCEPT !.pc = "print"]
    /\ UNCHANGED << reader_thread, worker, from_reader, reader_from_worker,
                    writer_from_worker, order_books, order_symbols, records,
                    received, printed, core_vars, unit_vars >>

\* writer_thread, lines 67-72: a None is skipped, an outcome is printed.
WriterPrint ==
    /\ Running
    /\ writer_thread.pc = "print"
    /\ printed' = IF writer_thread.outcome = None THEN printed
                  ELSE Append(printed, [seq |-> writer_thread.seq,
                                        outcome |-> writer_thread.outcome])
    /\ writer_thread' = [pc |-> "recv", seq |-> 0, outcome |-> None]
    /\ UNCHANGED << reader_thread, worker, from_reader, reader_from_worker,
                    from_writer, writer_from_worker, order_books, order_symbols,
                    records, received, core_vars, unit_vars >>

DriverNext ==
    \/ ReaderSend \/ ReaderRecv \/ ReaderEnd
    \/ WorkerRecv \/ WorkerRecvErr \/ WorkerAck \/ WorkerMatch
    \/ WorkerFromWriter \/ WorkerToWriter \/ WorkerJoin
    \/ WriterStart \/ WriterRecv \/ WriterRecvErr \/ WriterSend \/ WriterPrint

\* The pipeline of main.rs on an input file of at most MaxCommands well-formed
\* records.
DriverSpec == Init /\ [][DriverNext]_vars

\* The maps of the worker after the commands cmds, performed in order from the
\* new maps of line 77-80.
RECURSIVE Replay(_)
Replay(cmds) ==
    LET step(before) ==
            match_command(cmds[Len(cmds)], before.order_books, before.order_symbols)
    IN  IF cmds = << >>
        THEN [order_books |-> HashMap_new, order_symbols |-> HashMap_new,
              outcome |-> None, panic |-> FALSE, call |-> NoBookCall]
        ELSE step(Replay(SubSeq(cmds, 1, Len(cmds) - 1)))

\* The command c respects the preconditions of the core after the commands
\* cmds: a New brings an order id that no earlier New had, a Cancel names an
\* order that rests in the book its symbol has.
RespectsPreconditions(c, cmds, maps) ==
    IF c.type = "New"
    THEN \A i \in 1..Len(cmds) : cmds[i].type = "New" => cmds[i].order_id # c.order_id
    ELSE IF c.type = "Cancel"
    THEN /\ c.order_id \in DOMAIN maps.order_symbols
         /\ maps.order_symbols[c.order_id] \in DOMAIN maps.order_books
         /\ c.order_id \in
                DOMAIN maps.order_books[maps.order_symbols[c.order_id]].orders
    ELSE TRUE

\* reader_thread, line 53, on a file whose commands respect the preconditions.
ReaderSendValid ==
    /\ Running
    /\ reader_thread = "send"
    /\ Len(records) < MaxCommands
    /\ \E c \in Commands :
           /\ RespectsPreconditions(c, records, Replay(records))
           /\ records' = Append(records, c)
           /\ from_reader' = Append(from_reader,
                                    [seq |-> Len(records) + 1, command |-> c])
    /\ reader_thread' = "recv"
    /\ UNCHANGED << worker, writer_thread, reader_from_worker, from_writer,
                    writer_from_worker, order_books, order_symbols, received,
                    printed, core_vars, unit_vars >>

\* The steps of each thread.
ReaderValidNext == ReaderSendValid \/ ReaderRecv \/ ReaderEnd
WorkerNext ==
    \/ WorkerRecv \/ WorkerRecvErr \/ WorkerAck \/ WorkerMatch
    \/ WorkerFromWriter \/ WorkerToWriter \/ WorkerJoin
WriterNext == WriterStart \/ WriterRecv \/ WriterRecvErr \/ WriterSend \/ WriterPrint

DriverValidNext == ReaderValidNext \/ WorkerNext \/ WriterNext

\* The pipeline on an input file of at most MaxCommands well-formed records
\* whose commands respect the preconditions of the core; a thread that can take
\* a step is scheduled in the end.
DriverValidSpec ==
    /\ Init
    /\ [][DriverValidNext]_vars
    /\ WF_vars(ReaderValidNext)
    /\ WF_vars(WorkerNext)
    /\ WF_vars(WriterNext)

\* ------------------------------------------------------------------ properties

RECURSIVE SumQuantity(_)
\* The sum of the quantities of a queue of orders.
SumQuantity(s) == IF s = << >> THEN 0 ELSE s[1].quantity + SumQuantity(Tail(s))

\* The orders of book b that sit in the queue of the level at price p on a side.
QueueAt(b, side, p) ==
    IF p \in DOMAIN get_side(b, side) THEN get_side(b, side)[p].orders ELSE << >>

\* Order o sits in the queue of the level at its price on its side.
Resident(b, o) == \E i \in 1..Len(QueueAt(b, o.side, o.price)) :
                      QueueAt(b, o.side, o.price)[i] = o

\* All orders in the queues of one side of b.
SideOrders(b, side) ==
    UNION {{QueueAt(b, side, p)[i] : i \in 1..Len(QueueAt(b, side, p))} :
           p \in DOMAIN get_side(b, side)}

\* The last call was a submit_order / a cancel_order.
Submitted == call.op = "submit_order"
Cancelled == call.op = "cancel_order"

\* The ids the last call took out of the index.
Left == DOMAIN pre.orders \ DOMAIN orders

\* The resting orders a submit_order call can match: on the opposite side, at
\* exactly its price and of exactly its quantity, before the call.
Matches ==
    {id \in DOMAIN pre.orders :
        /\ pre.orders[id].side = Not(call.side)
        /\ pre.orders[id].price = call.price
        /\ pre.orders[id].quantity = call.quantity}

\* The position of an id in the arrival history before the call.
ArrivalRank(id) == CHOOSE i \in 1..Len(pre.arrival) : pre.arrival[i] = id

\* C1: an order id is a key of the index if and only if an order equal in all
\* fields sits in the queue of the level at its price on the side of its side.
C1_IndexBookConsistency ==
    /\ \A id \in DOMAIN orders : orders[id].id = id /\ Resident(book, orders[id])
    /\ \A side \in Sides : \A o \in SideOrders(book, side) :
           Resident(book, o) => (o.id \in DOMAIN orders /\ orders[o.id] = o)

\* C1 witness: a trade took a maker out of a book in which orders still rest.
C1_Witness ==
    /\ outcome.type = "Traded"
    /\ Left # {}
    /\ DOMAIN orders # {}

\* C2: after a submit_order call, whatever its outcome, the best bid is
\* strictly below the best ask whenever both exist.
C2_NoSilentCrossing ==
    Submitted =>
        ((IsSome(best_bid_price(book)) /\ IsSome(best_ask_price(book)))
            => Unwrap(best_bid_price(book)) < Unwrap(best_ask_price(book)))

\* C2 witness: a submitted order came to rest one tick from the opposite best.
C2_Witness ==
    /\ Submitted
    /\ outcome.type \in {"TopOfBook", "Created"}
    /\ IsSome(best_bid_price(book)) /\ IsSome(best_ask_price(book))
    /\ call.price \in {Unwrap(best_bid_price(book)), Unwrap(best_ask_price(book))}
    /\ Unwrap(best_bid_price(book)) + 1 = Unwrap(best_ask_price(book))

C4_NoEmptyLevel ==
    /\ \A side \in Sides : \A p \in DOMAIN get_side(book, side) :
           Len(get_side(book, side)[p].orders) > 0
    /\ \A id \in Left :
           LET o == pre.orders[id]
               prices == get_side(book, o.side)
           IN  Len(QueueAt(pre, o.side, o.price)) = 1 =>
                   /\ BookSide_get_price_volume(prices, o.price) = None
                   /\ IsSome(BookSide_min(prices)) =>
                          Unwrap(BookSide_min(prices)).price # o.price
                   /\ IsSome(BookSide_max(prices)) =>
                          Unwrap(BookSide_max(prices)).price # o.price

\* C4 witness: a trade took the last order at a price of a side that has
\* another level left.
C4_Witness ==
    /\ outcome.type = "Traded"
    /\ \E id \in Left :
           /\ Len(QueueAt(pre, pre.orders[id].side, pre.orders[id].price)) = 1
           /\ DOMAIN get_side(book, pre.orders[id].side) # {}

\* C5: when several resting orders of one side share the price and the quantity
\* of a trade request, the maker is the one submitted earliest among them.
C5_FifoTieBreak ==
    (Submitted /\ Matches # {}) =>
        /\ \E id \in Matches :
               /\ Left = {id}
               /\ \A other \in Matches : ArrivalRank(id) <= ArrivalRank(other)
        /\ outcome.type = "Traded" =>
               \A other \in Matches :
                   ArrivalRank(IF call.side = "Ask" THEN outcome.order_id_buy
                               ELSE outcome.order_id_sell) <= ArrivalRank(other)

\* C5 witness: two orders could be matched, and the maker, the earlier one, has
\* the larger id.
C5_Witness ==
    /\ Submitted
    /\ outcome.type = "Traded"
    /\ Cardinality(Matches) = 2
    /\ \E id \in Left : \E other \in Matches : other < id

\* The id of the resting party of a Traded outcome.
MakerId == IF call.side = "Ask" THEN outcome.order_id_buy ELSE outcome.order_id_sell

\* C6, as stated: submit_order returns Traded if and only if the opposite side
\* held, before the call, an order of exactly its price and quantity; the maker
\* is such an order, and no order of another price or quantity is touched.
C6_ExactMatchTrading ==
    Submitted =>
        /\ outcome.type = "Traded" <=> Matches # {}
        /\ outcome.type = "Traded" =>
               /\ MakerId \in Matches
               /\ Left = {MakerId}
               /\ outcome.price = call.price
               /\ outcome.quantity = call.quantity
        /\ \A id \in DOMAIN pre.orders \ Matches :
               id \in DOMAIN orders /\ orders[id] = pre.orders[id]
                                    /\ Resident(book, pre.orders[id])

\* C7: a Traded outcome carries the opposite side, that side's best price after
\* the trade and the volume at that price if and only if the traded price was
\* that side's best price before the trade; otherwise all three are none.
C7_TradedTopOfBook ==
    outcome.type = "Traded" =>
        LET opp == Not(call.side)
            top == get_best_for_side(book, opp)
        IN  IF get_best_for_side(pre, opp) = Some(call.price)
            THEN /\ outcome.side = Some(opp)
                 /\ outcome.top_price = top
                 /\ outcome.volume =
                        IF IsSome(top)
                        THEN Some(SumQuantity(QueueAt(book, opp, Unwrap(top))))
                        ELSE None
            ELSE /\ outcome.side = None
                 /\ outcome.top_price = None
                 /\ outcome.volume = None

\* C7 witness: the trade took the only order of the best level, and the outcome
\* reports the next level as the new top.
C7_Witness ==
    /\ outcome.type = "Traded"
    /\ IsSome(outcome.side)
    /\ IsSome(outcome.top_price)
    /\ Unwrap(outcome.top_price) # call.price

\* C8, as stated: a submit_order that matches the only order of the opposite
\* side returns Traded with that side, no top price and no volume, and the side
\* has no best price afterwards.
C8_TradeEmptiesSide ==
    (Submitted /\ Matches # {} /\ Cardinality(SideOrders(pre, Not(call.side))) = 1) =>
        /\ outcome.type = "Traded"
        /\ outcome.side = Some(Not(call.side))
        /\ outcome.top_price = None
        /\ outcome.volume = None
        /\ get_best_for_side(book, Not(call.side)) = None

\* C9: in a Traded outcome the buyer is the Bid party and the seller the Ask
\* party, and the outcome's own ids are the incoming order's.
C9_BuyerSeller ==
    outcome.type = "Traded" =>
        \E id \in Left :
            LET maker == pre.orders[id]
                buy == << outcome.user_id_buy, outcome.order_id_buy >>
                sell == << outcome.user_id_sell, outcome.order_id_sell >>
                taker == << call.user_id, call.order_id >>
                made == << maker.user_id, maker.id >>
            IN  /\ maker.side = Not(call.side)
                /\ maker.side = "Ask" => (buy = taker /\ sell = made)
                /\ maker.side = "Bid" => (buy = made /\ sell = taker)
                /\ outcome.user_id = call.user_id
                /\ outcome.order_id = call.order_id

\* C9 witness: an incoming Ask traded with a resting Bid of another user.
C9_Witness ==
    /\ outcome.type = "Traded"
    /\ call.side = "Ask"
    /\ outcome.order_id_sell = call.order_id
    /\ outcome.user_id_buy # outcome.user_id_sell

\* The price of the last submit_order is better than or equal to the best price
\* the opposite side had before the call.
Marketable ==
    LET opp_best == get_best_for_side(pre, Not(call.side))
    IN  /\ IsSome(opp_best)
        /\ IF call.side = "Ask" THEN call.price <= Unwrap(opp_best)
           ELSE call.price >= Unwrap(opp_best)

\* C10: submit_order returns Rejected, with the incoming ids, if and only if no
\* exact match rests on the opposite side and the price is better than or equal
\* to the opposite best; such an order does not come to rest.
C10_RejectionRule ==
    Submitted =>
        /\ outcome.type = "Rejected" <=> (Matches = {} /\ Marketable)
        /\ outcome.type = "Rejected" =>
               outcome = [type |-> "Rejected", user_id |-> call.user_id,
                          order_id |-> call.order_id]
        /\ Marketable =>
               /\ call.order_id \notin DOMAIN orders
               /\ \A o \in SideOrders(book, call.side) : o.id # call.order_id

\* C10 witness: an Ask priced strictly below the best bid, of a quantity no bid
\* at its price has, was rejected.
C10_Witness ==
    /\ Submitted
    /\ outcome.type = "Rejected"
    /\ call.side = "Ask"
    /\ call.price < Unwrap(get_best_for_side(pre, "Bid"))

\* The order that the last submit_order builds when it lets the order rest.
Incoming ==
    Order_new(call.order_id, call.user_id, call.side, call.price, call.quantity)

\* The price of the last submit_order is better than or equal to the best price
\* its own side had before the call, or that side was empty.
NewTop ==
    LET own_best == get_best_for_side(pre, call.side)
    IN  \/ ~IsSome(own_best)
        \/ IF call.side = "Ask" THEN call.price <= Unwrap(own_best)
           ELSE call.price >= Unwrap(own_best)

\* C11: a submitted order that is neither traded nor rejected (no exact match,
\* not marketable) is appended to the back of the level at its price on its side
\* and added to the index; the outcome is TopOfBook when its side was empty or
\* its price is better than or equal to its side's best before the append, and
\* Created when the price is strictly worse.
C11_RestingDecision ==
    Submitted =>
        /\ outcome.type \in {"TopOfBook", "Created"} <=> (Matches = {} /\ ~Marketable)
        /\ (Matches = {} /\ ~Marketable) =>
               /\ call.order_id \in DOMAIN orders
               /\ orders[call.order_id] = Incoming
               /\ QueueAt(book, call.side, call.price)
                      = Append(QueueAt(pre, call.side, call.price), Incoming)
               /\ outcome.type = "TopOfBook" <=> NewTop
               /\ outcome.type = "Created" =>
                      outcome = [type |-> "Created", user_id |-> call.user_id,
                                 order_id |-> call.order_id]

\* C11 witness: a Bid priced strictly below the best bid came to rest behind no
\* one and was answered Created.
C11_Witness ==
    /\ Submitted
    /\ outcome.type = "Created"
    /\ call.side = "Bid"
    /\ call.price < Unwrap(get_best_for_side(pre, "Bid"))
    /\ call.order_id \in DOMAIN orders

Without(q, o) == RemoveAt(q, Position(q, o))

\* C13: cancel_order of a resting order takes it out of its level and out of
\* the index and touches nothing else; the outcome is Created with the order's
\* owner and id when its price was not its side's best before the removal, and
\* otherwise TopOfBook with the side, the side's best price after the removal
\* and the volume at that price, both none when nothing is left on the side.
C13_CancelOutcome ==
    (Cancelled /\ call.order_id \in DOMAIN pre.orders) =>
        LET o == pre.orders[call.order_id]
            top == get_best_for_side(book, o.side)
        IN  /\ DOMAIN orders = DOMAIN pre.orders \ {call.order_id}
            /\ \A id \in DOMAIN orders : orders[id] = pre.orders[id]
            /\ get_side(book, Not(o.side)) = get_side(pre, Not(o.side))
            /\ \A p \in Prices :
                   QueueAt(book, o.side, p) =
                       IF p = o.price THEN Without(QueueAt(pre, o.side, p), o)
                       ELSE QueueAt(pre, o.side, p)
            /\ IF get_best_for_side(pre, o.side) # Some(o.price)
               THEN outcome = [type |-> "Created", user_id |-> o.user_id,
                               order_id |-> call.order_id]
               ELSE outcome =
                        [type |-> "TopOfBook", user_id |-> o.user_id,
                         order_id |-> call.order_id, side |-> o.side,
                         top_price |-> top,
                         volume |-> IF IsSome(top)
                                    THEN Some(SumQuantity(QueueAt(book, o.side,
                                                                  Unwrap(top))))
                                    ELSE None]
            /\ Cardinality(SideOrders(pre, o.side)) = 1 =>
                   /\ outcome.type = "TopOfBook"
                   /\ outcome.top_price = None
                   /\ outcome.volume = None

\* C13 witness: the only order of the best level was cancelled and the outcome
\* reports the next level of the side as the new top.
C13_Witness ==
    /\ Cancelled
    /\ outcome.type = "TopOfBook"
    /\ IsSome(outcome.top_price)
    /\ Unwrap(outcome.top_price) # pre.orders[call.order_id].price
    /\ IsSome(outcome.volume)

\* The prices of the orders of one side that are in the index.
RestingPrices(side) == {orders[id].price : id \in {i \in DOMAIN orders : orders[i].side = side}}

\* C15: best_ask_price() is the minimum price over the resting Ask orders and
\* best_bid_price() the maximum price over the resting Bid orders; each is none
\* exactly when its side has no resting order.
C15_BestPriceQueries ==
    /\ IsSome(best_ask_price(book)) <=> RestingPrices("Ask") # {}
    /\ IsSome(best_bid_price(book)) <=> RestingPrices("Bid") # {}
    /\ RestingPrices("Ask") # {} =>
           /\ Unwrap(best_ask_price(book)) \in RestingPrices("Ask")
           /\ \A p \in RestingPrices("Ask") : Unwrap(best_ask_price(book)) <= p
    /\ RestingPrices("Bid") # {} =>
           /\ Unwrap(best_bid_price(book)) \in RestingPrices("Bid")
           /\ \A p \in RestingPrices("Bid") : Unwrap(best_bid_price(book)) >= p

\* C15 witness: asks rest at two prices above a resting bid, after a call.
C15_Witness ==
    /\ call # NoCall
    /\ Cardinality(RestingPrices("Ask")) = 2
    /\ RestingPrices("Bid") # {}
    /\ best_bid_price(book) # None

\* C19: a submit_order that returns Rejected leaves the index and both sides,
\* every level's queue, queue order and volume, as they were before the call,
\* and the rejected id is not in the index.
C19_RejectionFrame ==
    (Submitted /\ outcome.type = "Rejected") =>
        /\ orders = pre.orders
        /\ asks = pre.asks
        /\ bids = pre.bids
        /\ call.order_id \notin DOMAIN orders
        /\ \A side \in Sides : \A o \in SideOrders(book, side) : o.id # call.order_id

\* C19 witness: an order was rejected by a book with orders on both sides, one
\* of them at the order's own price on the opposite side.
C19_Witness ==
    /\ Submitted
    /\ outcome.type = "Rejected"
    /\ SideOrders(pre, call.side) # {}
    /\ Len(QueueAt(pre, Not(call.side), call.price)) = 1

\* C20: a submit_order that returns Traded takes exactly one order, the maker,
\* out of the opposite side and out of the index; the incoming id is neither in
\* the index nor in any level; the incoming order's own side is unchanged, and
\* so is every other order of the opposite side, queue order included.
C20_TakerNeverRests ==
    (Submitted /\ outcome.type = "Traded") =>
        /\ Left = {MakerId}
        /\ DOMAIN orders = DOMAIN pre.orders \ {MakerId}
        /\ \A id \in DOMAIN orders : orders[id] = pre.orders[id]
        /\ pre.orders[MakerId].side = Not(call.side)
        /\ call.order_id \notin DOMAIN orders
        /\ \A side \in Sides : \A o \in SideOrders(book, side) : o.id # call.order_id
        /\ get_side(book, call.side) = get_side(pre, call.side)
        /\ \A p \in Prices :
               QueueAt(book, Not(call.side), p) =
                   IF p = call.price
                   THEN Without(QueueAt(pre, Not(call.side), p), pre.orders[MakerId])
                   ELSE QueueAt(pre, Not(call.side), p)

\* C20 witness: the maker was the first of the two orders of its level, and the
\* second one is what the level holds after the trade.
C20_Witness ==
    /\ Submitted
    /\ outcome.type = "Traded"
    /\ Len(QueueAt(pre, Not(call.side), call.price)) = 2
    /\ Len(QueueAt(book, Not(call.side), call.price)) = 1
    /\ QueueAt(pre, Not(call.side), call.price)[1].id = MakerId

\* C14: cancel_order of an id that is not in the index ends in a panic, not in
\* an outcome, and index, asks and bids are what they were before the call.
C14_CancelUnknownId ==
    (Cancelled /\ call.order_id \notin DOMAIN pre.orders) =>
        /\ outcome = Panic("cancel_order")
        /\ orders = pre.orders
        /\ asks = pre.asks
        /\ bids = pre.bids

\* C14 witness: an id that is not in the index was cancelled on a book in which
\* another order rests.
C14_Witness ==
    /\ Cancelled
    /\ call.order_id \notin DOMAIN pre.orders
    /\ DOMAIN pre.orders # {}
    /\ outcome.type = "Panic"

\* The worker holds a command: it has received it and not yet sent its outcome.
Working == worker.pc \in {"ack", "match", "from_writer", "to_writer"}

\* The messages of a sequence that carry an outcome.
Outcomes(msgs) == SelectSeq(msgs, LAMBDA m : m.outcome # None)

\* The messages the writer is through with: all it received but the one it holds.
Handled ==
    IF writer_thread.pc \in {"send", "print"}
    THEN SubSeq(received, 1, Len(received) - 1) ELSE received

C17_DriverGuardsCancel ==
    worker.call.op = "cancel_order" =>
        worker.call.order_id \in DOMAIN worker.call.book.orders

\* The index of the last Flush among the first k - 1 commands read, 0 for none.
LastFlush(k) ==
    IF \E j \in 1..(k - 1) : records[j] = Flush
    THEN CHOOSE j \in 1..(k - 1) :
             records[j] = Flush /\ \A m \in (j + 1)..(k - 1) : records[m] # Flush
    ELSE 0

\* The k-th command read is the first New for its symbol after a Flush.
FirstSinceFlush(k) ==
    /\ records[k].type = "New"
    /\ LastFlush(k) > 0
    /\ \A m \in (LastFlush(k) + 1)..(k - 1) :
           records[m].type = "New" => records[m].symbol # records[k].symbol

\* C18: when the worker has performed a Flush no order book is left and its
\* outcome is None; the message of a Flush is None and nothing is printed for
\* it; the first New for a symbol after a Flush is submitted to a new, empty
\* book, so it comes to rest as the top of its side with its own quantity as
\* the volume.
C18_FlushResets ==
    /\ (worker.pc \in {"from_writer", "to_writer"} /\ worker.command = Flush) =>
           /\ order_books = HashMap_new
           /\ worker.outcome = None
    /\ \A i \in 1..Len(received) :
           records[i] = Flush =>
               /\ received[i].outcome = None
               /\ \A j \in 1..Len(printed) : printed[j].seq # i
    /\ (worker.pc \in {"from_writer", "to_writer", "panicked"}
            /\ FirstSinceFlush(worker.seq)) =>
           /\ worker.call.op = "submit_order"
           /\ worker.call.book = OrderBook_new
           /\ worker.outcome =
                  Some([type |-> "TopOfBook", user_id |-> worker.command.user_id,
                        order_id |-> worker.command.order_id,
                        top_price |-> Some(worker.command.price),
                        volume |-> Some(worker.command.quantity),
                        side |-> worker.command.side])

\* C18 witness: an order rested, a Flush followed, and an order of the same
\* symbol, price and quantity on the opposite side was then answered TopOfBook.
C18_Witness ==
    /\ worker.pc = "to_writer"
    /\ worker.seq = 3
    /\ worker.command.type = "New"
    /\ records[2] = Flush
    /\ records[1].type = "New"
    /\ records[1].symbol = worker.command.symbol
    /\ records[1].side = Not(worker.command.side)
    /\ Unwrap(worker.outcome).type = "TopOfBook"

\* C21: for every id in the index the side of its order has a best price and
\* holds the order in the level at its price, and a cancel_order of an id that
\* was in the index returns Created or TopOfBook, never a panic.
C21_CancelLiveNeverFails ==
    /\ \A id \in DOMAIN orders :
           /\ IsSome(get_best_for_side(book, orders[id].side))
           /\ Resident(book, orders[id])
    /\ (Cancelled /\ call.order_id \in DOMAIN pre.orders) =>
           /\ outcome.type \in {"Created", "TopOfBook"}
           /\ outcome.order_id = call.order_id
           /\ outcome.user_id = pre.orders[call.order_id].user_id

\* C21 witness: with three orders resting, one in the middle of a queue of
\* three was cancelled.
C21_Witness ==
    /\ Cancelled
    /\ outcome.type \in {"Created", "TopOfBook"}
    /\ \E side \in Sides : \E p \in Prices :
           /\ Len(QueueAt(pre, side, p)) = 3
           /\ QueueAt(pre, side, p)[2].id = call.order_id

\* The book r.book that a cancel_order left is the book before the last call, and
\* the cancel returned an outcome.
RoundTrip(r) ==
    /\ r.outcome.type \in {"Created", "TopOfBook"}
    /\ r.book.orders = pre.orders
    /\ r.book.asks = pre.asks
    /\ r.book.bids = pre.bids
    /\ DOMAIN r.book.asks = DOMAIN pre.asks
    /\ DOMAIN r.book.bids = DOMAIN pre.bids
    /\ \A side \in Sides : \A p \in Prices :
           /\ QueueAt(r.book, side, p) = QueueAt(pre, side, p)
           /\ BookSide_get_price_volume(get_side(r.book, side), p)
                  = BookSide_get_price_volume(get_side(pre, side), p)
    /\ best_bid_price(r.book) = best_bid_price(pre)
    /\ best_ask_price(r.book) = best_ask_price(pre)

\* C22: when submit_order has let an order rest (TopOfBook or Created), a
\* cancel_order of its id as the next call gives back the book before the
\* submit: index, levels of both sides, every queue and volume, both bests.
C22_SubmitCancelRoundTrip ==
    (Submitted /\ outcome.type \in {"TopOfBook", "Created"}) =>
        RoundTrip(cancel_order(book, call.order_id))

\* C22 witness: the order came to rest behind another order of its level, with
\* an order on the opposite side, and the cancel of it gives the book back.
C22_Witness ==
    /\ Submitted
    /\ outcome.type \in {"TopOfBook", "Created"}
    /\ Len(QueueAt(pre, call.side, call.price)) = 1
    /\ SideOrders(pre, Not(call.side)) # {}
    /\ cancel_order(book, call.order_id).book.orders = pre.orders

\* The queue positions of book b, and the order ids found in them.
Positions(b) ==
    UNION {UNION {{<< side, p, i >> : i \in 1..Len(get_side(b, side)[p].orders)} :
                      p \in DOMAIN get_side(b, side)} : side \in Sides}
QueuedIds(b) == {get_side(b, pos[1])[pos[2]].orders[pos[3]].id : pos \in Positions(b)}

\* C25: every order in a level has the price under which the level is indexed,
\* which is the level's price field; every order of the ask side is an Ask and
\* every order of the bid side a Bid; no order id is in two queue positions.
C25_LevelHomogeneity ==
    /\ \A side \in Sides : \A p \in DOMAIN get_side(book, side) :
           /\ p \in Prices
           /\ get_side(book, side)[p].price = p
           /\ Len(get_side(book, side)[p].orders) <= MaxOrderId
           /\ \A i \in 1..Len(get_side(book, side)[p].orders) :
                  /\ get_side(book, side)[p].orders[i].price = p
                  /\ get_side(book, side)[p].orders[i].side = side
    /\ Cardinality(QueuedIds(book)) = Cardinality(Positions(book))

\* C25 witness: after a call two orders share a level of one side and a third
\* rests on the other side.
C25_Witness ==
    /\ call # NoCall
    /\ \E side \in Sides :
           /\ \E p \in Prices : Len(QueueAt(book, side, p)) = 2
           /\ SideOrders(book, Not(side)) # {}

\* The ids that have been submitted and are not in the index: rejected, matched
\* or cancelled; and those of them that were so before the last call.
Gone == used_ids \ DOMAIN orders
GoneBefore == (used_ids \ {call.order_id}) \ DOMAIN pre.orders

\* The orders of a queue that the last call did not take out of the index.
Kept(q) == SelectSeq(q, LAMBDA o : o.id \notin Left)

\* The orders of a queue that were in the index before the last call.
Old(q) == SelectSeq(q, LAMBDA o : o.id \in DOMAIN pre.orders)

\* C23, as stated: across every call a resting order keeps its fields, its
\* level and its place among the other orders of the level, unless the call is
\* the cancel_order of its id or returns a Traded outcome that names it as the
\* maker; an id that has left the index is in no level, and with ids used once
\* it is no party of a later Traded outcome.
C23_OrderLifecycle ==
    /\ \A id \in Gone : \A side \in Sides : \A o \in SideOrders(book, side) :
           o.id # id
    /\ call # NoCall =>
           /\ \A id \in DOMAIN pre.orders \ Left :
                  orders[id] = pre.orders[id] /\ Resident(book, orders[id])
           /\ \A side \in Sides : \A p \in Prices :
                  Old(QueueAt(book, side, p)) = Kept(QueueAt(pre, side, p))
           /\ \A id \in Left :
                  \/ Cancelled /\ call.order_id = id
                  \/ outcome.type = "Traded" /\ MakerId = id
           /\ outcome.type = "Traded" =>
                  {outcome.order_id_buy, outcome.order_id_sell} \cap GoneBefore = {}

\* The volume at the best price of a side of book b, none without a best price.
TopVolume(b, side) ==
    IF IsSome(get_best_for_side(b, side))
    THEN Some(SumQuantity(QueueAt(b, side, Unwrap(get_best_for_side(b, side)))))
    ELSE None

\* The last call changed the best price of the side or the volume at it.
TopChanged(side) ==
    \/ get_best_for_side(pre, side) # get_best_for_side(book, side)
    \/ TopVolume(pre, side) # TopVolume(book, side)

\* The outcome of the last call reports the side's best price and the volume
\* at it as they are after the call.
Reports(side) ==
    \/ /\ outcome.type = "TopOfBook"
       /\ outcome.side = side
       /\ outcome.top_price = get_best_for_side(book, side)
       /\ outcome.volume = TopVolume(book, side)
    \/ /\ outcome.type = "Traded"
       /\ outcome.side = Some(side)
       /\ outcome.top_price = get_best_for_side(book, side)
       /\ outcome.volume = TopVolume(book, side)

\* C24, as stated: for every submit_order and cancel_order call, a side whose
\* best price, or volume at the best price, differs between the book before
\* and the book after the call is reported by the outcome: a TopOfBook for
\* that side, or a Traded with that side, with the best price and volume after
\* the call.
C24_TopOfBookComplete ==
    call # NoCall => \A side \in Sides : TopChanged(side) => Reports(side)

\* The order given to the last call on the level is in the queue before it.
InQueue == \E i \in 1..Len(level_op.pre.orders) : level_op.pre.orders[i] = level_op.arg

\* C27, as stated: PriceLevel::remove of an order that is not in the queue ends
\* in a panic, returns no volume, and leaves the queue and the volume of the
\* level as they were before the call.
C27_RemoveNonResident ==
    (level_op.op = "remove" /\ ~InQueue) =>
        /\ level_op.panic
        /\ level_op.ret = None
        /\ level.orders = level_op.pre.orders
        /\ level.volume = level_op.pre.volume

\* C28, as stated: PriceLevel::append returns the volume before plus the
\* order's quantity, and PriceLevel::remove of an order of the queue the volume
\* before minus its quantity, as numbers: nothing wraps, nothing goes below
\* zero, and the level's volume is the sum of the quantities in its queue.
C28_VolumeInRange ==
    /\ level_op.op = "append" =>
           /\ ~level_op.panic
           /\ level_op.ret = Some(level_op.pre.volume + level_op.arg.quantity)
           /\ level.volume = SumQuantity(level.orders)
    /\ (level_op.op = "remove" /\ InQueue) =>
           /\ ~level_op.panic
           /\ level_op.pre.volume - level_op.arg.quantity >= 0
           /\ level_op.ret = Some(level_op.pre.volume - level_op.arg.quantity)
           /\ level.volume = SumQuantity(level.orders)

\* All three threads have ended and every command read has had its outcome
\* received and printed.
Terminated ==
    /\ reader_thread = "done"
    /\ worker.pc = "done"
    /\ writer_thread.pc = "done"
    /\ Len(received) = Len(records)
    /\ printed = Outcomes(received)

\* C26, as stated: on an input whose commands respect the preconditions of the
\* core the pipeline reaches no deadlock under any interleaving of the three
\* threads: as long as some command read has not had its outcome printed, or
\* some thread has not ended, some thread can take a step.
C26_PipelineTermination == Terminated \/ ENABLED DriverValidNext

====
